---- MODULE Spec2Model ----
(***************************************************************************)
(* State-machine model of the AgriTech Flask backend (src/app.py):         *)
(* module start-up (model download and load), the POST /predict handler    *)
(* executed by two server threads over the shared TFLite interpreter and   *)
(* the shared uploads directory, the two plaintext GET routes, and the     *)
(* pure helpers analyze_sensor_data, get_weather_data and get_remedy.      *)
(***************************************************************************)
EXTENDS Integers, Sequences, FiniteSets, TLC

VARIABLES
    booted,           \* module-level code of app.py (lines 12-53) has run
    interpreter,      \* the global `interpreter`: "None" or "loaded"
    WEATHER_API_KEY,  \* the global WEATHER_API_KEY: "None" or "key"
    uploads,          \* the uploads directory: sanitized name -> file
    input_tensor,     \* the interpreter's input tensor (image fed by set_tensor)
    output_tensor,    \* the interpreter's output tensor (written by invoke)
    req,              \* per server thread: the request it is handling
    reading,          \* analyze_sensor_data: the argument `data`
    advice            \* analyze_sensor_data: the outcome (list or exception)

vars == <<booted, interpreter, WEATHER_API_KEY, uploads, input_tensor,
          output_tensor, req, reading, advice>>

(***************************************************************************)
(* Program constants.                                                      *)
(***************************************************************************)
TEMP_HIGH == 35
TEMP_LOW == 15
TEMP_OPTIMAL_MAX == 25
HUMIDITY_HIGH == 80
HUMIDITY_LOW == 30
SOIL_VERY_DRY == 300
SOIL_DRY == 500
SOIL_WATERLOGGED == 800
LIGHT_VERY_HIGH == 200
LIGHT_GOOD == 500
LIGHT_LOW == 800

ALLOWED_EXTENSIONS == {"png", "jpg", "jpeg"}

CLASS_NAMES == <<"Potato___Early_blight", "Potato___Late_blight", "Potato___Healthy">>

(***************************************************************************)
(* Bounds of the model.                                                    *)
(***************************************************************************)
\* Sensor values are sampled within Spread of every threshold.
Spread == 1

(***************************************************************************)
(* JSON values of a sensor reading.  A reading is the parsed JSON object:  *)
(* every key maps to Absent (key missing), Null, Str (a JSON string) or a  *)
(* number.  data.get(k) is None for both Absent and Null.                  *)
(***************************************************************************)
SensorKeys == <<"temperature", "humidity", "soil_moisture", "light">>

Absent == [t |-> "absent", n |-> 0]
Null == [t |-> "null", n |-> 0]
Str == [t |-> "str", n |-> 0]
Num(n) == [t |-> "num", n |-> n]

IsNone(v) == v.t \in {"absent", "null"}

Around(x) == (x - Spread)..(x + Spread)

TemperatureSamples == Around(TEMP_LOW) \cup Around(TEMP_OPTIMAL_MAX) \cup Around(TEMP_HIGH)
HumiditySamples == Around(HUMIDITY_LOW) \cup Around(HUMIDITY_HIGH)
SoilSamples == Around(SOIL_VERY_DRY) \cup Around(SOIL_DRY) \cup Around(SOIL_WATERLOGGED)
LightSamples == Around(LIGHT_VERY_HIGH) \cup Around(LIGHT_GOOD) \cup Around(LIGHT_LOW)

NonNumbers == {Absent, Null, Str}

Readings ==
    [temperature : NonNumbers \cup {Num(n) : n \in TemperatureSamples},
     humidity : {Absent} \cup {Num(n) : n \in HumiditySamples},
     soil_moisture : {Absent, Str} \cup {Num(n) : n \in SoilSamples},
     light : {Absent} \cup {Num(n) : n \in LightSamples}]

EmptyReading ==
    [temperature |-> Absent, humidity |-> Absent, soil_moisture |-> Absent, light |-> Absent]

(***************************************************************************)
(* analyze_sensor_data (src/app.py:145-193).  Advisories are named         *)
(* "<key>:<band>".  Comparing a JSON string with a number raises           *)
(* TypeError; calling .get on a value that is not a dict raises            *)
(* AttributeError.                                                         *)
(***************************************************************************)
\* Mutant: a plain `else` in place of `elif 15 <= temp <= 25`.
TemperatureAdviceElse(temp) ==
    IF temp > TEMP_HIGH THEN <<"temperature:high">>
    ELSE IF temp < TEMP_LOW THEN <<"temperature:low">>
    ELSE <<"temperature:optimal">>

\* Each `if X is not None:` block gives nothing for None (a missing key or null).
TemperatureAdvice(temp) ==
    IF temp > TEMP_HIGH THEN <<"temperature:high">>
    ELSE IF temp < TEMP_LOW THEN <<"temperature:low">>
    ELSE IF TEMP_LOW <= temp /\ temp <= TEMP_OPTIMAL_MAX THEN <<"temperature:optimal">>
    ELSE <<>>

HumidityAdvice(humidity) ==
    IF humidity > HUMIDITY_HIGH THEN <<"humidity:high">>
    ELSE IF humidity < HUMIDITY_LOW THEN <<"humidity:low">>
    ELSE <<"humidity:moderate">>

SoilAdvice(soil_moisture) ==
    IF soil_moisture < SOIL_VERY_DRY THEN <<"soil_moisture:very_dry">>
    ELSE IF soil_moisture < SOIL_DRY THEN <<"soil_moisture:becoming_dry">>
    ELSE IF soil_moisture > SOIL_WATERLOGGED THEN <<"soil_moisture:waterlogged">>
    ELSE <<"soil_moisture:good">>

LightAdvice(light) ==
    IF light < LIGHT_VERY_HIGH THEN <<"light:very_high">>
    ELSE IF light < LIGHT_GOOD THEN <<"light:good">>
    ELSE IF light > LIGHT_LOW THEN <<"light:low">>
    ELSE <<>>

\* The first key, in evaluation order, whose comparison raises TypeError.
RaisesTypeError(data) == \E i \in 1..Len(SensorKeys) : data[SensorKeys[i]].t = "str"

Returned(list) == [exc |-> "none", list |-> list]
Raised(e) == [exc |-> e, list |-> <<>>]
NotRun == [exc |-> "not_run", list |-> <<>>]

\* Mutant: the humidity block placed before the temperature block.
analyze_sensor_data_reordered(json) ==
    IF json.kind # "object" THEN Raised("AttributeError")
    ELSE IF RaisesTypeError(json.fields) THEN Raised("TypeError")
    ELSE LET temp == json.fields.temperature
             humidity == json.fields.humidity
             soil_moisture == json.fields.soil_moisture
             light == json.fields.light
         IN  Returned((IF IsNone(humidity) THEN <<>> ELSE HumidityAdvice(humidity.n))
                      \o (IF IsNone(temp) THEN <<>> ELSE TemperatureAdvice(temp.n))
                      \o (IF IsNone(soil_moisture) THEN <<>> ELSE SoilAdvice(soil_moisture.n))
                      \o (IF IsNone(light) THEN <<>> ELSE LightAdvice(light.n)))

analyze_sensor_data(json) ==
    IF json.kind # "object" THEN Raised("AttributeError")
    ELSE IF RaisesTypeError(json.fields) THEN Raised("TypeError")
    ELSE LET temp == json.fields.temperature
             humidity == json.fields.humidity
             soil_moisture == json.fields.soil_moisture
             light == json.fields.light
         IN  Returned((IF IsNone(temp) THEN <<>> ELSE TemperatureAdvice(temp.n))
                      \o (IF IsNone(humidity) THEN <<>> ELSE HumidityAdvice(humidity.n))
                      \o (IF IsNone(soil_moisture) THEN <<>> ELSE SoilAdvice(soil_moisture.n))
                      \o (IF IsNone(light) THEN <<>> ELSE LightAdvice(light.n)))

Object(fields) == [kind |-> "object", fields |-> fields]
Scalar == [kind |-> "scalar", fields |-> EmptyReading]

(***************************************************************************)
(* json.loads on the sensor_data form field (src/app.py:71).  The form     *)
(* values the clients send, and what parsing each yields; ParseError is    *)
(* json.JSONDecodeError.                                                   *)
(***************************************************************************)
NoField == "<no field>"

SensorForms ==
    {NoField, "{bad json", "{}", "{\"temperature\": 20}", "{\"temperature\": 28, \"humidity\": 85}",
     "{\"temperature\": \"hot\"}", "42"}

ParseError == [kind |-> "JSONDecodeError", fields |-> EmptyReading]

\* Mutant: a parse failure swallowed, the reading left empty.
json_loads_lenient(s) ==
    CASE s = "{}" -> Object(EmptyReading)
      [] s = "{\"temperature\": 20}" -> Object([EmptyReading EXCEPT !.temperature = Num(20)])
      [] s = "{\"temperature\": 28, \"humidity\": 85}" ->
            Object([EmptyReading EXCEPT !.temperature = Num(28), !.humidity = Num(85)])
      [] s = "{\"temperature\": \"hot\"}" -> Object([EmptyReading EXCEPT !.temperature = Str])
      [] s = "42" -> Scalar
      [] OTHER -> Object(EmptyReading)

json_loads(s) ==
    CASE s = "{}" -> Object(EmptyReading)
      [] s = "{\"temperature\": 20}" -> Object([EmptyReading EXCEPT !.temperature = Num(20)])
      [] s = "{\"temperature\": 28, \"humidity\": 85}" ->
            Object([EmptyReading EXCEPT !.temperature = Num(28), !.humidity = Num(85)])
      [] s = "{\"temperature\": \"hot\"}" -> Object([EmptyReading EXCEPT !.temperature = Str])
      [] s = "42" -> Scalar
      [] OTHER -> ParseError

(***************************************************************************)
(* Uploaded files.  A client filename is (directory prefix, stem,          *)
(* extension); the empty filename is what a browser sends for an empty     *)
(* file input.                                                             *)
(***************************************************************************)
Filename(dir, stem, ext) == [dir |-> dir, stem |-> stem, ext |-> ext]
NoFilename == Filename("", "", "")

ClientFilenames ==
    {NoFilename, Filename("", "leaf", "jpg"), Filename("../", "leaf", "jpg"),
     Filename("", "plant", "PNG"), Filename("", "notes", "txt")}

Lower(ext) == CASE ext = "PNG" -> "png" [] ext = "JPG" -> "jpg" [] OTHER -> ext

\* allowed_file (src/app.py:56-57)
allowed_file(filename) == filename.ext # "" /\ Lower(filename.ext) \in ALLOWED_EXTENSIONS

\* werkzeug secure_filename: path separators and leading dots are dropped.
secure_filename(filename) == [stem |-> filename.stem, ext |-> filename.ext]

\* Mutant: one fixed temp name for every upload.
TempPathFixed(filename) == [stem |-> "upload", ext |-> "tmp"]

\* os.path.join('uploads', filename): the entry of the uploads directory.
TempPath(filename) == secure_filename(filename)

Paths == {TempPath(f) : f \in {g \in ClientFilenames : allowed_file(g)}}

NoImage == "<no image>"
NoFile == "<no file>"
Corrupt == "not an image"
LeafImages == {"blighted leaf", "healthy leaf"}
ImageBytes == LeafImages \cup {Corrupt}

(***************************************************************************)
(* The classifier: one forward pass of the loaded weights, argmax and max  *)
(* (src/app.py:103-107).  Activations are in percent.                      *)
(***************************************************************************)
Forward(img) == IF img = "healthy leaf" THEN <<2, 8, 90>> ELSE <<70, 25, 5>>
NoOutput == <<0, 0, 0>>

Max(out) == CHOOSE m \in {out[i] : i \in 1..Len(out)} : \A i \in 1..Len(out) : out[i] <= m
\* np.argmax: the first index holding the maximum
Argmax(out) == CHOOSE i \in 1..Len(out) : out[i] = Max(out) /\ \A j \in 1..(i - 1) : out[j] # Max(out)

PredictedClass(out) == CLASS_NAMES[Argmax(out)]
Confidence(out) == Max(out)

(***************************************************************************)
(* get_remedy (src/app.py:222-247)                                         *)
(***************************************************************************)
get_remedy(disease) ==
    CASE disease = "Potato___Early_blight" -> "remedy: early blight"
      [] disease = "Potato___Late_blight" -> "remedy: late blight"
      [] disease = "Potato___Healthy" -> "remedy: healthy"
      [] disease = "No_image_provided" -> "remedy: no image provided"
      [] OTHER -> "Consult an agricultural expert"

(***************************************************************************)
(* get_weather_data (src/app.py:196-219).  An outcome of the outbound GET  *)
(* is a transport result and, for a 2xx answer, the shape of the body.     *)
(***************************************************************************)
WeatherOutcomes ==
    [net : {"connection_error", "timeout", "http_error"}, main : {"missing"}, weather : {"missing"}]
    \cup [net : {"ok"}, main : {"missing", "full"},
          weather : {"missing", "empty_list", "entry_without_main", "full"}]

NoWeather == [exc |-> "not_run", none |-> TRUE, temperature |-> Absent, humidity |-> Absent,
              conditions |-> "None"]
WeatherNone == [NoWeather EXCEPT !.exc = "none"]

get_weather_data(key, o) ==
    IF key = "None" THEN WeatherNone
    ELSE IF o.net # "ok" THEN WeatherNone
    ELSE IF o.weather = "empty_list" THEN [NoWeather EXCEPT !.exc = "IndexError"]
    ELSE [exc |-> "none", none |-> FALSE,
          temperature |-> IF o.main = "full" THEN Num(27) ELSE Absent,
          humidity |-> IF o.main = "full" THEN Num(60) ELSE Absent,
          conditions |-> IF o.weather = "full" THEN "Clouds" ELSE "None"]

(***************************************************************************)
(* Module start-up (src/app.py:18-43, 52): download_model, then the load   *)
(* of the TFLite interpreter.  Inputs: whether model_quant.tflite is on    *)
(* disk, whether MODEL_URL is set, whether the download and the load       *)
(* succeed.                                                                *)
(***************************************************************************)
\* download_model: is the model file on disk afterwards?
download_model(on_disk, url_set, download_ok) == on_disk \/ (url_set /\ download_ok)

LoadInterpreter(on_disk, load_ok) == IF on_disk /\ load_ok THEN "loaded" ELSE "None"

(***************************************************************************)
(* Server threads and the request each is handling.  Flask's development   *)
(* server (app.run, src/app.py:263) starts a thread per request; two       *)
(* requests in flight at a time are modelled, and a thread that has sent   *)
(* its response takes the next request.                                    *)
(***************************************************************************)
Threads == {1, 2}

NoResponse ==
    [status |-> 0, kind |-> "none", message |-> "", disease |-> "<absent>", confidence |-> -1,
     recommendation |-> "<absent>", sensor_analysis |-> <<>>, weather_data |-> NoWeather]

\* jsonify({"status": "error", "message": m}), code
ErrorResponse(code, m) == [NoResponse EXCEPT !.status = code, !.kind = "json:error", !.message = m]
\* Flask's answer to an exception that leaves the view function: an HTML 500 page.
UnhandledResponse(e) == [NoResponse EXCEPT !.status = 500, !.kind = "html", !.message = e]
PlainResponse(text) == [NoResponse EXCEPT !.status = 200, !.kind = "text", !.message = text]

IdleReq ==
    [pc |-> "idle", route |-> "", form |-> NoField, filename |-> NoFilename, bytes |-> NoImage,
     sensor_data |-> Object(EmptyReading), temp_path |-> FALSE,
     img |-> NoImage, predicted_class |-> "", confidence |-> 0, error |-> "",
     weather_data |-> NoWeather, sensor_insights |-> NotRun, response |-> NoResponse,
     trace |-> <<>>]

\* The uploads a client can attach: no `image` part, an empty file input, or a
\* filename with bytes.
Uploads ==
    {[filename |-> NoFilename, bytes |-> NoImage]}
    \cup {[filename |-> NoFilename, bytes |-> Corrupt]}
    \cup [filename : ClientFilenames \ {NoFilename}, bytes : ImageBytes]

\* has_image (src/app.py:78)
has_image(r) == r.bytes # NoImage /\ r.filename # NoFilename

Step(r, name) == [r EXCEPT !.trace = Append(r.trace, name)]
Done(r, resp) == [r EXCEPT !.pc = "done", !.response = resp]
Did(r, name) == \E i \in 1..Len(r.trace) : r.trace[i] = name

Init ==
    /\ booted = FALSE
    /\ interpreter = "None"
    /\ WEATHER_API_KEY = "None"
    /\ uploads = [p \in Paths |-> NoFile]
    /\ input_tensor = NoImage
    /\ output_tensor = NoOutput
    /\ req = [t \in Threads |-> IdleReq]
    /\ reading = Object(EmptyReading)
    /\ advice = NotRun

Startup ==
    /\ ~booted
    /\ booted' = TRUE
    /\ \E on_disk, url_set, download_ok, load_ok \in BOOLEAN :
          interpreter' = LoadInterpreter(download_model(on_disk, url_set, download_ok), load_ok)
    /\ WEATHER_API_KEY' \in {"None", "key"}
    /\ UNCHANGED <<uploads, input_tensor, output_tensor, req, reading, advice>>

\* A request reaches the server and is dispatched to its view function.
Arrive(t, forms, ups) ==
    /\ booted
    /\ req[t].pc = "idle"
    /\ \/ \E form \in forms, up \in ups :
             req' = [req EXCEPT ![t] = [IdleReq EXCEPT !.pc = "check_model", !.route = "/predict",
                                           !.form = form, !.filename = up.filename,
                                           !.bytes = up.bytes]]
       \/ \E route \in {"/", "/logs"} :
             req' = [req EXCEPT ![t] = [IdleReq EXCEPT !.pc = route, !.route = route]]
    /\ UNCHANGED <<booted, interpreter, WEATHER_API_KEY, uploads, input_tensor, output_tensor,
                   reading, advice>>

Local(t, r) ==
    /\ req' = [req EXCEPT ![t] = r]
    /\ UNCHANGED <<booted, interpreter, WEATHER_API_KEY, uploads, input_tensor, output_tensor,
                   reading, advice>>

\* home (src/app.py:249-251)
home(t) ==
    /\ req[t].pc = "/"
    /\ Local(t, Done(req[t], PlainResponse("AgriTech Flask Backend is running")))

\* check_logs (src/app.py:254-256)
check_logs(t) ==
    /\ req[t].pc = "/logs"
    /\ Local(t, Done(req[t], PlainResponse("Check the application logs")))

\* Mutant: the `if not interpreter` check left out.
CheckModelIgnored(t) ==
    /\ req[t].pc = "check_model"
    /\ Local(t, [Step(req[t], "check_model") EXCEPT !.pc = "parse_sensor"])

\* predict, lines 62-63
CheckModel(t) ==
    /\ req[t].pc = "check_model"
    /\ LET r == Step(req[t], "check_model") IN
       IF interpreter = "None"
       THEN Local(t, Done(r, ErrorResponse(500, "Model not loaded")))
       ELSE Local(t, [r EXCEPT !.pc = "parse_sensor"])

\* predict, lines 68-75
ParseSensor(t) ==
    /\ req[t].pc = "parse_sensor"
    /\ LET r == Step(req[t], "parse_sensor") IN
       IF r.form = NoField
       THEN Local(t, [r EXCEPT !.pc = "check_image"])
       ELSE IF json_loads(r.form) = ParseError
       THEN Local(t, Done(r, ErrorResponse(400, "Invalid sensor data format")))
       ELSE Local(t, [r EXCEPT !.pc = "check_image", !.sensor_data = json_loads(r.form)])

\* predict, lines 78-87 and 117-120
CheckImage(t) ==
    /\ req[t].pc = "check_image"
    /\ LET r == Step(req[t], "check_image") IN
       IF has_image(r)
       THEN IF ~allowed_file(r.filename)
            THEN Local(t, Done(r, ErrorResponse(400, "Invalid file type")))
            ELSE Local(t, [r EXCEPT !.pc = "save"])
       ELSE Local(t, [r EXCEPT !.pc = "enrich", !.predicted_class = "No_image_provided",
                                !.confidence = 0])

(***************************************************************************)
(* The try block of predict (src/app.py:87-116).  Every statement that     *)
(* touches the uploads directory or the interpreter is one step; an        *)
(* exception is kept in `error` until the finally clause has run.          *)
(***************************************************************************)
SaveOutcomes == {"ok", "makedirs_error", "write_error"}

\* lines 89-93: secure_filename, os.makedirs, os.path.join, file.save
Save(t) ==
    /\ req[t].pc = "save"
    /\ \E outcome \in SaveOutcomes :
          LET r == Step(req[t], "save")
              path == TempPath(r.filename)
          IN  CASE outcome = "makedirs_error" ->
                     /\ req' = [req EXCEPT ![t] = [r EXCEPT !.pc = "finally", !.error = "OSError"]]
                     /\ UNCHANGED uploads
                [] outcome = "write_error" ->
                     /\ req' = [req EXCEPT ![t] = [r EXCEPT !.pc = "finally", !.error = "OSError",
                                                              !.temp_path = TRUE]]
                     /\ uploads' = [uploads EXCEPT ![path] = Corrupt]
                [] OTHER ->
                     /\ req' = [req EXCEPT ![t] = [r EXCEPT !.pc = "open", !.temp_path = TRUE]]
                     /\ uploads' = [uploads EXCEPT ![path] = r.bytes]
    /\ UNCHANGED <<booted, interpreter, WEATHER_API_KEY, input_tensor, output_tensor,
                   reading, advice>>

\* lines 95-97: Image.open(temp_path).convert('RGB').resize(...), img_to_array
Open(t) ==
    /\ req[t].pc = "open"
    /\ LET r == Step(req[t], "open")
           data == uploads[TempPath(r.filename)]
       IN
       CASE data = NoFile ->
              Local(t, [r EXCEPT !.pc = "finally", !.error = "FileNotFoundError"])
         [] data = Corrupt ->
              Local(t, [r EXCEPT !.pc = "finally", !.error = "UnidentifiedImageError"])
         [] OTHER ->
              Local(t, [r EXCEPT !.pc = "set_tensor", !.img = data])

\* lines 100-102: interpreter.set_tensor(input_details[0]['index'], img_array)
SetTensor(t) ==
    /\ req[t].pc = "set_tensor"
    /\ input_tensor' = req[t].img
    /\ req' = [req EXCEPT ![t] = [Step(req[t], "set_tensor") EXCEPT !.pc = "invoke"]]
    /\ UNCHANGED <<booted, interpreter, WEATHER_API_KEY, uploads, output_tensor, reading, advice>>

\* line 103: interpreter.invoke()
Invoke(t) ==
    /\ req[t].pc = "invoke"
    /\ output_tensor' = Forward(input_tensor)
    /\ req' = [req EXCEPT ![t] = [Step(req[t], "invoke") EXCEPT !.pc = "get_tensor"]]
    /\ UNCHANGED <<booted, interpreter, WEATHER_API_KEY, uploads, input_tensor, reading, advice>>

\* lines 104-108: get_tensor, argmax, max
GetTensor(t) ==
    /\ req[t].pc = "get_tensor"
    /\ Local(t, [Step(req[t], "get_tensor") EXCEPT
                    !.pc = "finally",
                    !.predicted_class = PredictedClass(output_tensor),
                    !.confidence = Confidence(output_tensor)])

\* What follows the finally clause: the except branch's return (line 112) when
\* an exception was caught, the rest of predict otherwise.
AfterFinally(r) ==
    IF r.error # "" THEN Done(r, ErrorResponse(500, r.error)) ELSE [r EXCEPT !.pc = "enrich"]

\* line 114: if temp_path and os.path.exists(temp_path)
FinallyExists(t) ==
    /\ req[t].pc = "finally"
    /\ LET r == Step(req[t], "finally") IN
       IF r.temp_path /\ uploads[TempPath(r.filename)] # NoFile
       THEN Local(t, [r EXCEPT !.pc = "remove"])
       ELSE Local(t, AfterFinally(r))

\* line 115: os.remove(temp_path); FileNotFoundError leaves predict uncaught
Remove(t) ==
    /\ req[t].pc = "remove"
    /\ LET r == Step(req[t], "remove")
           path == TempPath(r.filename)
       IN  IF uploads[path] = NoFile
           THEN /\ req' = [req EXCEPT ![t] = Done(r, UnhandledResponse("FileNotFoundError"))]
                /\ UNCHANGED uploads
           ELSE /\ req' = [req EXCEPT ![t] = AfterFinally(r)]
                /\ uploads' = [uploads EXCEPT ![path] = NoFile]
    /\ UNCHANGED <<booted, interpreter, WEATHER_API_KEY, input_tensor, output_tensor,
                   reading, advice>>

(***************************************************************************)
(* The rest of predict (src/app.py:122-142).                               *)
(***************************************************************************)
\* lines 123-124: get_weather_data(), analyze_sensor_data(sensor_data)
Enrich(t) ==
    /\ req[t].pc = "enrich"
    /\ \E o \in WeatherOutcomes :
          LET r == [Step(req[t], "enrich") EXCEPT
                       !.weather_data = get_weather_data(WEATHER_API_KEY, o)]
              a == analyze_sensor_data(r.sensor_data)
          IN  IF r.weather_data.exc # "none"
              THEN Local(t, Done(r, UnhandledResponse(r.weather_data.exc)))
              ELSE IF a.exc # "none"
              THEN Local(t, Done([r EXCEPT !.sensor_insights = a], UnhandledResponse(a.exc)))
              ELSE Local(t, [r EXCEPT !.pc = "respond", !.sensor_insights = a])

\* Mutant: the prediction fields added without the `if has_image` test.
SuccessResponseAlways(r) ==
    [NoResponse EXCEPT !.status = 200, !.kind = "json:success",
                       !.sensor_analysis = r.sensor_insights.list,
                       !.weather_data = r.weather_data,
                       !.disease = r.predicted_class, !.confidence = r.confidence,
                       !.recommendation = get_remedy(r.predicted_class)]

\* lines 126-139: the response dictionary
SuccessResponse(r) ==
    LET base == [NoResponse EXCEPT !.status = 200, !.kind = "json:success",
                                   !.sensor_analysis = r.sensor_insights.list,
                                   !.weather_data = r.weather_data]
    IN  IF has_image(r)
        THEN [base EXCEPT !.disease = r.predicted_class, !.confidence = r.confidence,
                          !.recommendation = get_remedy(r.predicted_class)]
        ELSE base

\* lines 126-142
Respond(t) ==
    /\ req[t].pc = "respond"
    /\ Local(t, Done(Step(req[t], "respond"), SuccessResponse(req[t])))

\* The response has been sent; the thread is free for the next request.
Release(t) ==
    /\ req[t].pc = "done"
    /\ Local(t, IdleReq)

\* One step of the view function a thread is in.
Handle(t) ==
    \/ home(t)
    \/ check_logs(t)
    \/ CheckModel(t)
    \/ ParseSensor(t)
    \/ CheckImage(t)
    \/ Save(t)
    \/ Open(t)
    \/ SetTensor(t)
    \/ Invoke(t)
    \/ GetTensor(t)
    \/ FinallyExists(t)
    \/ Remove(t)
    \/ Enrich(t)
    \/ Respond(t)

(***************************************************************************)
(* Spec: one request at a time, any number of requests, every form value   *)
(* and upload.                                                             *)
(***************************************************************************)
Next ==
    \/ Startup
    \/ Arrive(1, SensorForms, Uploads)
    \/ Handle(1)
    \/ Release(1)

Spec == Init /\ [][Next]_vars

(***************************************************************************)
(* SpecRace: two requests in flight together, one per thread, each         *)
(* running to its response.  The uploads are those that reach the shared   *)
(* directory and interpreter, next to a request without an image.          *)
(***************************************************************************)
RaceForms == {NoField}

RaceUploads ==
    {[filename |-> NoFilename, bytes |-> NoImage]}
    \cup [filename : {f \in ClientFilenames : allowed_file(f)}, bytes : ImageBytes]

NextRace ==
    \/ Startup
    \/ \E t \in Threads : Arrive(t, RaceForms, RaceUploads) \/ Handle(t)

SpecRace == Init /\ [][NextRace]_vars

(***************************************************************************)
(* SpecSensor: analyze_sensor_data applied to every sampled reading, and   *)
(* to a JSON value that is not an object.                                  *)
(***************************************************************************)
InitSensor ==
    /\ booted = FALSE
    /\ interpreter = "None"
    /\ WEATHER_API_KEY = "None"
    /\ uploads = [p \in Paths |-> NoFile]
    /\ input_tensor = NoImage
    /\ output_tensor = NoOutput
    /\ req = [t \in Threads |-> IdleReq]
    /\ reading \in {Object(f) : f \in Readings} \cup {Scalar}
    /\ advice = NotRun

Analyze ==
    /\ advice = NotRun
    /\ advice' = analyze_sensor_data(reading)
    /\ UNCHANGED <<booted, interpreter, WEATHER_API_KEY, uploads, input_tensor, output_tensor,
                   req, reading>>

NextSensor == Analyze

SpecSensor == InitSensor /\ [][NextSensor]_vars

(***************************************************************************)
(* Properties of analyze_sensor_data (SpecSensor).                         *)
(***************************************************************************)
\* The key an advisory is about: its position in the evaluation order.
AdvisoryKey(a) ==
    CASE a \in {"temperature:high", "temperature:low", "temperature:optimal"} -> 1
      [] a \in {"humidity:high", "humidity:low", "humidity:moderate"} -> 2
      [] a \in {"soil_moisture:very_dry", "soil_moisture:becoming_dry",
                "soil_moisture:waterlogged", "soil_moisture:good"} -> 3
      [] a \in {"light:very_high", "light:good", "light:low"} -> 4
      [] OTHER -> 0

AdvisoriesAbout(list, k) == {i \in 1..Len(list) : AdvisoryKey(list[i]) = k}

\* A sensor reading in the sense of the data model: a JSON object whose
\* present values are numbers (or null).
NumericReading(json) ==
    json.kind = "object" /\ \A i \in 1..Len(SensorKeys) : json.fields[SensorKeys[i]].t # "str"

Analyzed == advice # NotRun

\* C6, as stated: a reading with a numeric temperature t gets exactly one
\* temperature advisory, "high" when t > 35, "low" when t < 15, "optimal" when
\* 15 <= t <= 25.
C6_ExactlyOneTemperatureAdvisory ==
    (Analyzed /\ NumericReading(reading) /\ reading.fields.temperature.t = "num") =>
        LET t == reading.fields.temperature.n
            about == AdvisoriesAbout(advice.list, 1)
        IN  /\ advice.exc = "none"
            /\ Cardinality(about) = 1
            /\ (t > 35) => advice.list[1] = "temperature:high"
            /\ (t < 15) => advice.list[1] = "temperature:low"
            /\ (15 <= t /\ t <= 25) => advice.list[1] = "temperature:optimal"

\* C6, amended: a reading with a numeric temperature t gets at most one
\* temperature advisory: "high" when t > 35, "low" when t < 15, "optimal" when
\* 15 <= t <= 25, and none at all when 25 < t <= 35.
C6_TemperatureAdvisory ==
    (Analyzed /\ NumericReading(reading) /\ reading.fields.temperature.t = "num") =>
        LET t == reading.fields.temperature.n
            about == AdvisoriesAbout(advice.list, 1)
        IN  /\ advice.exc = "none"
            /\ about = IF 25 < t /\ t <= 35 THEN {} ELSE {1}
            /\ (t > 35) => advice.list[1] = "temperature:high"
            /\ (t < 15) => advice.list[1] = "temperature:low"
            /\ (15 <= t /\ t <= 25) => advice.list[1] = "temperature:optimal"

\* A temperature in the band that has no advisory has been analysed.
C6_Witness ==
    /\ Analyzed
    /\ NumericReading(reading)
    /\ reading.fields.temperature = Num(26)
    /\ advice = Returned(<<>>)

\* C8: for a reading with any subset of the four keys the result is a list
\* with at most one advisory per present key, none for an absent key, in the
\* order temperature, humidity, soil_moisture, light; it is empty when none
\* of the keys is present.
C8_OnePerKeyInOrder ==
    (Analyzed /\ NumericReading(reading)) =>
        /\ advice.exc = "none"
        /\ \A i \in 1..Len(advice.list) : AdvisoryKey(advice.list[i]) \in 1..Len(SensorKeys)
        /\ \A i, j \in 1..Len(advice.list) :
              i < j => AdvisoryKey(advice.list[i]) < AdvisoryKey(advice.list[j])
        /\ \A k \in 1..Len(SensorKeys) :
              /\ Cardinality(AdvisoriesAbout(advice.list, k)) <= 1
              /\ IsNone(reading.fields[SensorKeys[k]]) => AdvisoriesAbout(advice.list, k) = {}
        /\ (\A k \in 1..Len(SensorKeys) : IsNone(reading.fields[SensorKeys[k]]))
              => advice.list = <<>>

\* All four keys present and analysed: four advisories.
C8_Witness ==
    /\ Analyzed
    /\ \A k \in 1..Len(SensorKeys) : reading.fields[SensorKeys[k]].t = "num"
    /\ Len(advice.list) = 4

(***************************************************************************)
(* Properties of the request handler, one request at a time (Spec).        *)
(***************************************************************************)
Finished(t) == req[t].pc = "done" /\ req[t].route = "/predict"

\* The form values json.loads rejects.
Unparsable == {"{bad json"}

NoSideEffects(r) == ~Did(r, "save") /\ ~Did(r, "invoke") /\ ~Did(r, "enrich")

InvalidSensorAnswer(r) ==
    /\ r.response.status = 400
    /\ r.response.kind = "json:error"
    /\ r.response.message = "Invalid sensor data format"
    /\ NoSideEffects(r)

\* C3, as stated: a request whose sensor_data is not parsable JSON ends with
\* 400 "Invalid sensor data format" whatever the state of the model, and no
\* temp file is written, no inference run, no weather lookup made.
C3_InvalidSensorAlways400 ==
    \A t \in Threads : (Finished(t) /\ req[t].form \in Unparsable) => InvalidSensorAnswer(req[t])

\* C3, amended: when the model is loaded, a request whose sensor_data is not
\* parsable JSON ends with 400 "Invalid sensor data format", whatever its
\* other fields, and no temp file is written, no inference run, no weather
\* lookup made; it never gets past the parse step.
C3_InvalidSensor400WhenLoaded ==
    \A t \in Threads :
        (interpreter = "loaded" /\ req[t].form \in Unparsable) =>
            /\ req[t].pc \in {"check_model", "parse_sensor", "done"}
            /\ Finished(t) => InvalidSensorAnswer(req[t])
            /\ \A p \in Paths : uploads[p] = NoFile

\* An unparsable sensor_data sent along with a valid image, model loaded.
C3_Witness ==
    \E t \in Threads :
        /\ Finished(t)
        /\ interpreter = "loaded"
        /\ req[t].form \in Unparsable
        /\ has_image(req[t]) /\ allowed_file(req[t].filename) /\ req[t].bytes \in LeafImages
        /\ req[t].response.status = 400

\* C4: when the model failed to load, every POST /predict ends at once with
\* 500 "Model not loaded", before any validation, file write or weather
\* lookup, and GET / and GET /logs are still answered.
C4_ModelNotLoaded ==
    (booted /\ interpreter = "None") =>
        /\ \A p \in Paths : uploads[p] = NoFile
        /\ \A t \in Threads :
              /\ req[t].route = "/predict" => req[t].pc \in {"check_model", "done"}
              /\ Finished(t) =>
                    /\ req[t].response.status = 500
                    /\ req[t].response.kind = "json:error"
                    /\ req[t].response.message = "Model not loaded"
                    /\ req[t].trace = <<"check_model">>
              /\ (req[t].pc = "done" /\ req[t].route \in {"/", "/logs"}) =>
                    (req[t].response.status = 200 /\ req[t].response.kind = "text")
              /\ req[t].pc = "idle" => ENABLED Arrive(t, SensorForms, Uploads)

\* Model not loaded, and a request with an image and an unparsable sensor_data
\* has been answered.
C4_Witness ==
    \E t \in Threads :
        /\ Finished(t)
        /\ interpreter = "None"
        /\ req[t].form \in Unparsable
        /\ has_image(req[t])
        /\ req[t].response.status = 500

\* C5: the weather lookup never fails a request: whatever the outbound call
\* yields, get_weather_data raises nothing and a request that passed
\* validation and inference ends in a 200 success response.
C5_WeatherNeverFails ==
    \A t \in Threads :
        (Finished(t) /\ Did(req[t], "enrich") /\ NumericReading(req[t].sensor_data)) =>
            /\ req[t].weather_data.exc = "none"
            /\ req[t].response.status = 200
            /\ req[t].response.kind = "json:success"

\* The phase a step of predict belongs to: validate-inputs 1, preprocess 2,
\* infer 3, the finally clause 4, enrich 5, respond 6.
PhaseOf(step) ==
    CASE step \in {"check_model", "parse_sensor", "check_image"} -> 1
      [] step \in {"save", "open"} -> 2
      [] step \in {"set_tensor", "invoke", "get_tensor"} -> 3
      [] step \in {"finally", "remove"} -> 4
      [] step = "enrich" -> 5
      [] OTHER -> 6

PhasesInOrder(trace) ==
    /\ \A i, j \in 1..Len(trace) : i < j => PhaseOf(trace[i]) <= PhaseOf(trace[j])
    /\ \A i, j \in 1..Len(trace) : i < j => trace[i] # trace[j]

StructuredTerminal(resp) ==
    \/ resp.kind = "json:success" /\ resp.status = 200
    \/ resp.kind = "json:error" /\ resp.status \in {400, 500} /\ resp.message # ""

\* C9: every request runs its phases in order without repeating one and ends
\* in the 200 success response or a structured JSON error with status 400
\* or 500, for every input, sensor_data that is no object or holds
\* non-numeric values included.  (Stated for the requests whose weather
\* lookup returned.)
C9_PhasesAndStructuredTerminal ==
    \A t \in Threads :
        /\ PhasesInOrder(req[t].trace)
        /\ (Finished(t) /\ req[t].weather_data.exc # "IndexError") =>
              StructuredTerminal(req[t].response)

(***************************************************************************)
(* Properties of two requests in flight together (SpecRace).               *)
(***************************************************************************)
Succeeded(t) == Finished(t) /\ req[t].response.kind = "json:success"

\* The request wrote its upload into the uploads directory.
Saved(t) == Did(req[t], "save") /\ req[t].temp_path

C2_OwnImageClassified ==
    \A t \in Threads :
        (Succeeded(t) /\ has_image(req[t]) /\ req[t].img = req[t].bytes) =>
            /\ req[t].response.disease = CLASS_NAMES[Argmax(Forward(req[t].bytes))]
            /\ req[t].response.confidence = Max(Forward(req[t].bytes))

RemedyFor(label) ==
    CASE label = "Potato___Early_blight" -> "remedy: early blight"
      [] label = "Potato___Late_blight" -> "remedy: late blight"
      [] label = "Potato___Healthy" -> "remedy: healthy"
      [] OTHER -> "<none>"

\* C7: in a success response disease, confidence and recommendation are
\* present exactly when an image was supplied and classified; a disease that
\* is present is one of the three labels of CLASS_NAMES and the
\* recommendation is the remedy of that label.
C7_DiseaseFieldsIffClassified ==
    \A t \in Threads :
        Succeeded(t) =>
            LET resp == req[t].response
                classified == has_image(req[t]) /\ Did(req[t], "get_tensor")
            IN  /\ (resp.disease # "<absent>") <=> classified
                /\ (resp.confidence # -1) <=> classified
                /\ (resp.recommendation # "<absent>") <=> classified
                /\ classified =>
                      /\ resp.disease \in {"Potato___Early_blight", "Potato___Late_blight",
                                           "Potato___Healthy"}
                      /\ resp.recommendation = RemedyFor(resp.disease)
                      /\ resp.confidence \in 0..100

\* One request answered with a classification while the other, which sent no
\* image, is answered without the three fields.
C7_Witness ==
    \E t, u \in Threads :
        /\ Succeeded(t) /\ has_image(req[t]) /\ req[t].response.disease = "Potato___Healthy"
        /\ Succeeded(u) /\ ~has_image(req[u]) /\ req[u].response.disease = "<absent>"

\* The request decoded something other than the valid image it saved: another
\* upload's bytes, or nothing because the file was gone.
ReadForeign(t) ==
    /\ Saved(t) /\ Did(req[t], "open")
    /\ req[t].bytes \in LeafImages
    /\ req[t].error # "OSError"
    /\ req[t].img # req[t].bytes

\* C10: two concurrent requests whose filenames sanitize to the same name race
\* on one uploads path: a request can open the file after the other has
\* overwritten or deleted it, and then classifies the other's bytes or ends in
\* a 500 error although its own upload was valid.  Checked as: a request reads
\* anything but its own valid upload only if the other request wrote a file
\* under the same sanitized name (the invariant), and both outcomes are
\* reached (the witness).
C10_ForeignReadOnlyBySameName ==
    \A t \in Threads :
        ReadForeign(t) =>
            \E u \in Threads \ {t} :
                /\ Saved(u)
                /\ secure_filename(req[u].filename) = secure_filename(req[t].filename)

\* Both outcomes in one run: t classified u's image and answered 200 with
\* u's label; u found the file deleted and answered 500.
C10_Witness ==
    \E t, u \in Threads :
        /\ t # u
        /\ req[t].filename # req[u].filename
        /\ req[t].bytes = "healthy leaf" /\ req[u].bytes = "blighted leaf"
        /\ Succeeded(t) /\ req[t].img = req[u].bytes
        /\ req[t].response.disease = "Potato___Early_blight"
        /\ Finished(u) /\ ReadForeign(u)
        /\ req[u].response.status = 500 /\ req[u].response.message = "FileNotFoundError"
====
